---- MODULE Spec2Model ----
(***************************************************************************)
(* Model of sequelize-socket-interface.                                    *)
(*                                                                         *)
(* Server side: one accepted connection of ModelServer (src/README.md,     *)
(* lines 33-267): the socket object with the properties the handler reads  *)
(* and writes, the 'data' handler, the `resolved` continuation and the     *)
(* promises that are still pending.                                        *)
(* Client side: one ModelClient (src/lib/client.js): the socket's 'data'   *)
(* and 'error' listeners and the promises returned by _write.              *)
(***************************************************************************)
EXTENDS Integers, Sequences, FiniteSets, TLC

VARIABLES
    socket,      \* the server-side socket object: property name -> property value
    pending,     \* the promises the handler attached `resolved` to and that have not settled
    responses,   \* what has been written on the connection, in order: <<[req, body]>>
    nreq,        \* how many chunks the 'data' handler has received
    open,        \* FALSE once the process that owns the connection has terminated
    last,        \* the last step taken (what the handler or the continuation just did)
    tenantNames, \* the tenant strings inbound requests may carry
    timer,       \* the socket's idle timeout and whether it has destroyed the socket
    cl           \* the client (see the client section)

vars == <<socket, pending, responses, nreq, open, last, tenantNames, timer, cl>>

(***************************************************************************)
(* Bounds                                                                  *)
(***************************************************************************)
MaxReq == 2      \* inbound chunks on the connection
MaxLen == 1      \* longest array a provider method returns

(***************************************************************************)
(* Names.  Model names are sequences of characters, because _getModelName  *)
(* computes on their characters; every other name is a string.             *)
(***************************************************************************)
Student == <<"S", "t", "u", "d", "e", "n", "t">>
student == <<"s", "t", "u", "d", "e", "n", "t">>
raw == <<"r", "a", "w">>
\* data[undefined] reads the property named "undefined"
undefinedName == <<"u", "n", "d", "e", "f", "i", "n", "e", "d">>
undefined == "undefined"

\* String.prototype.toLowerCase on one character
toLowerCase(ch) ==
    CASE ch = "S" -> "s"
      [] ch = "P" -> "p"
      [] ch = "R" -> "r"
      [] ch = "U" -> "u"
      [] OTHER -> ch

\* name.slice(1)
slice1(name) == SubSeq(name, 2, Len(name))

(***************************************************************************)
(* Values: what a method returns, what a promise resolves to, what the     *)
(* cache holds.  An object carries its provenance (prov: the provider      *)
(* whose model class produced it, or "raw" for a plain object), its type   *)
(* name and the request it was produced for (src).                         *)
(***************************************************************************)
NoObj == [prov |-> "none", type |-> <<>>, src |-> 0]
Obj(prov, type, src) == [prov |-> prov, type |-> type, src |-> src]

UndefinedV == [kind |-> "undefined", obj |-> NoObj, elems |-> <<>>]
NullV == [kind |-> "null", obj |-> NoObj, elems |-> <<>>]
ObjV(o) == [kind |-> "obj", obj |-> o, elems |-> <<>>]
ArrV(es) == [kind |-> "array", obj |-> NoObj, elems |-> es]

RECURSIVE Repeat(_, _)
Repeat(x, n) == IF n = 0 THEN <<>> ELSE <<x>> \o Repeat(x, n - 1)

\* the values a method of provider `prov` can produce for request `id`
ValuesOf(prov, id) ==
    {UndefinedV, NullV, ObjV(Obj(prov, Student, id)), ObjV(Obj("raw", <<>>, id))}
        \cup {ArrV(Repeat(Obj(prov, Student, id), n)) : n \in 0..MaxLen}

(***************************************************************************)
(* The socket object.  The handler keeps the two provider references and   *)
(* every tenant's cache as properties of the same object, next to the      *)
(* socket's own members (write stands for them).                           *)
(***************************************************************************)
EmptyMap == [k \in {} |-> NullV]
Put(map, key, v) == [k \in DOMAIN map \cup {key} |-> IF k = key THEN v ELSE map[k]]

UndefinedProp == [kind |-> "undefined", ref |-> "", data |-> EmptyMap, dataSets |-> EmptyMap]
ProviderProp(name) == [kind |-> "provider", ref |-> name, data |-> EmptyMap, dataSets |-> EmptyMap]
FunctionProp == [kind |-> "function", ref |-> "write", data |-> EmptyMap, dataSets |-> EmptyMap]
\* {data: {}, dataSets: {}}
FreshCache == [kind |-> "cache", ref |-> "", data |-> EmptyMap, dataSets |-> EmptyMap]

PlainTenants == {"t1", "t2"}
PropNames == PlainTenants \cup {"MySql", "Mongo", "write", undefined}

\* the socket as the connection handler leaves it before any data arrives
NewSocket ==
    [p \in PropNames |->
        CASE p = "MySql" -> ProviderProp("MySql")
          [] p = "Mongo" -> ProviderProp("Mongo")
          [] p = "write" -> FunctionProp
          [] OTHER -> UndefinedProp]

(***************************************************************************)
(* The providers, at their boundary: which tenants, models and class       *)
(* methods exist, and which methods a record or an array has.              *)
(***************************************************************************)
ProviderTenants == {"t1", "t2"}
ProviderModels == {Student}
ClassMethods == {"findById"}
InstanceMethods == {"getParents"}
ArrayMethods == {"slice"}

Dbs == {"MySql", "Mongo", "data", "dataSets", undefined}
ModelNames == {Student, student, undefinedName}
MethodNames == {"findById", "getParents", "slice", undefined}

SignatureMsg == "Signature does not match."
SyntaxMsg == "Unexpected token"            \* the message of JSON.parse's SyntaxError
TypeMsg == "TypeError"                     \* the message of a TypeError raised by a lookup
ProviderMsg == "provider failure"          \* the message of an error a method raises

ErrorBody(msg) == [kind |-> "error", msg |-> msg, val |-> NullV]
ValueBody(v) == [kind |-> "value", msg |-> "", val |-> v]

(***************************************************************************)
(* _getModelName and _getPlainObject                                       *)
(***************************************************************************)
\* reading record.Model throws on null and undefined
GetModelNameThrows(v) == v.kind \in {"null", "undefined"}

LowerFirst(name) == <<toLowerCase(name[1])>> \o slice1(name)

GetModelName(v) ==
    IF v.obj.prov = "MySql" THEN LowerFirst(v.obj.type)
    ELSE IF v.obj.prov = "Mongo" THEN LowerFirst(v.obj.type)
    ELSE raw

\* record.get() / record.toJSON(): the attributes without the instance
Plain(o) == Obj("raw", o.type, o.src)

GetPlainObject(o, type) ==
    IF type = "MySql" /\ o.prov = "MySql" THEN Plain(o)
    ELSE IF type = "Mongo" /\ o.prov = "Mongo" THEN Plain(o)
    ELSE o

\* reading record.get / record.toJSON throws on null
GetPlainObjectThrows(v, type) == type \in {"MySql", "Mongo"} /\ v.kind = "null"

(***************************************************************************)
(* socket.write and sendError.  A step of the handler yields               *)
(*   [socket, writes, threw]: the socket afterwards, the bodies written,   *)
(*   and whether an exception left the code that was running.              *)
(***************************************************************************)
\* socket.write(...) is a call of whatever the property write holds
WriteThrows(s) == s["write"].kind # "function"

Done(s, ws) == [socket |-> s, writes |-> ws, threw |-> FALSE]
Thrown(s, ws) == [socket |-> s, writes |-> ws, threw |-> TRUE]

\* sendError(socket, err): socket.write(JSON.stringify({error: err.message}))
sendError(s, msg) ==
    IF WriteThrows(s) THEN Thrown(s, <<>>) ELSE Done(s, <<ErrorBody(msg)>>)

(***************************************************************************)
(* resolved(record), for the request with closure variables db and tenant  *)
(***************************************************************************)
IsDirect(db) == db # "data" /\ db # "dataSets"

\* record.forEach((element, index) => record[index] = _getPlainObject(element, db))
NormalizeElems(es, db) == [i \in 1..Len(es) |-> GetPlainObject(es[i], db)]

Normalize(v, db) ==
    IF v.kind = "array" THEN ArrV(NormalizeElems(v.elems, db))
    ELSE IF v.kind = "obj" THEN ObjV(GetPlainObject(v.obj, db))
    ELSE v

\* the argument resolved passes to _getModelName: record[0] or record
NameArg(v) ==
    IF v.kind = "array"
    THEN (IF Len(v.elems) = 0 THEN UndefinedV ELSE ObjV(v.elems[1]))
    ELSE v

\* socket[tenant].dataSets[name] = record  /  socket[tenant].data[name] = record
Store(s, tenant, v) ==
    IF v.kind = "array"
    THEN [s EXCEPT ![tenant].dataSets = Put(@, GetModelName(NameArg(v)), v)]
    ELSE [s EXCEPT ![tenant].data = Put(@, GetModelName(NameArg(v)), v)]

\* The array that was stored is the array whose elements forEach replaces.
StoreNormalized(s, tenant, v, db) ==
    IF v.kind = "array"
    THEN [s EXCEPT ![tenant].dataSets = Put(@, GetModelName(NameArg(v)), Normalize(v, db))]
    ELSE s

\* JSON.stringify(record): an instance is written as what its toJSON gives,
\* its attributes
Stringify(v) ==
    IF v.kind = "array" THEN ArrV([i \in 1..Len(v.elems) |->
                                    IF v.elems[i].prov \in {"MySql", "Mongo"}
                                    THEN Plain(v.elems[i]) ELSE v.elems[i]])
    ELSE IF v.kind = "obj" /\ v.obj.prov \in {"MySql", "Mongo"} THEN ObjV(Plain(v.obj))
    ELSE v

\* try { socket.write(JSON.stringify(record)) } catch (err) { sendError(socket, err) }
WriteRecord(s, v) ==
    IF WriteThrows(s) THEN sendError(s, TypeMsg) ELSE Done(s, <<ValueBody(Stringify(v))>>)

resolved(s, db, tenant, result) ==
    LET record == IF result.kind = "undefined" THEN NullV ELSE result
    IN  IF IsDirect(db)
        THEN IF GetModelNameThrows(NameArg(record)) \/ s[tenant].kind # "cache"
             THEN Thrown(s, <<>>)
             ELSE IF GetPlainObjectThrows(record, db)
                  THEN Thrown(Store(s, tenant, record), <<>>)
                  ELSE WriteRecord(StoreNormalized(Store(s, tenant, record), tenant, record, db),
                                   Normalize(record, db))
        ELSE WriteRecord(s, Normalize(record, db))

(***************************************************************************)
(* The 'data' handler                                                      *)
(***************************************************************************)
\* An inbound chunk: text that JSON.parse rejects, a falsy JSON value, or a
\* truthy JSON value with the fields the handler reads (a missing field
\* reads as undefined).
NoFields(json) ==
    [json |-> json, db |-> undefined, tenant |-> undefined,
     model |-> undefinedName, method |-> undefined]

Fields(dbs, tenants, models, methods) ==
    [json : {"object"}, db : dbs, tenant : tenants, model : models, method : methods]

\* The requests: every field present, or one field missing, or none there.
Chunks(tenants) ==
    LET dbs == Dbs \ {undefined}
        models == ModelNames \ {undefinedName}
        methods == MethodNames \ {undefined}
    IN  {NoFields("invalid"), NoFields("falsy"), NoFields("object")}
            \cup Fields(dbs, tenants, models, methods)
            \cup Fields({undefined}, tenants, models, methods)
            \cup Fields(dbs, {undefined}, models, methods)
            \cup Fields(dbs, tenants, {undefinedName}, methods)
            \cup Fields(dbs, tenants, models, {undefined})

\* what the invoked method does: throws, returns a value, or returns a promise
NoOutcome == [mode |-> "none", val |-> UndefinedV]
ThrowOutcome == [mode |-> "throw", val |-> UndefinedV]
PromiseOutcome == [mode |-> "promise", val |-> UndefinedV]
ValueOutcome(v) == [mode |-> "value", val |-> v]

NoTarget == [found |-> FALSE, kind |-> "none", prov |-> "none", val |-> UndefinedV]
ClassTarget(db) == [found |-> TRUE, kind |-> "class", prov |-> db, val |-> UndefinedV]
EntryTarget(v) ==
    [found |-> TRUE, kind |-> IF v.kind = "array" THEN "array" ELSE "instance",
     prov |-> v.obj.prov, val |-> v]

\* entry[method] is a function
HasMethod(v, method) ==
    \/ v.kind = "obj" /\ v.obj.prov \in {"MySql", "Mongo"} /\ method \in InstanceMethods
    \/ v.kind = "array" /\ method \in ArrayMethods

\* socket[db][tenant].model(model)[method]   and   socket[db][tenant][model][method]
ProviderTarget(s, c) ==
    IF /\ s[c.db].kind = "provider"
       /\ c.tenant \in ProviderTenants
       /\ c.model \in ProviderModels
       /\ c.method \in ClassMethods
    THEN ClassTarget(c.db)
    ELSE NoTarget

\* socket[tenant][db][model][method], db being data or dataSets
CachedTarget(s, c) ==
    LET map == IF c.db = "data" THEN s[c.tenant].data ELSE s[c.tenant].dataSets
    IN  IF /\ s[c.tenant].kind = "cache"
           /\ c.model \in DOMAIN map
           /\ HasMethod(map[c.model], c.method)
        THEN EntryTarget(map[c.model])
        ELSE NoTarget

Target(s, c) == IF IsDirect(c.db) THEN ProviderTarget(s, c) ELSE CachedTarget(s, c)

\* what a method of the target can do for request id
MethodOutcomes(t, id) ==
    IF t.kind = "array" THEN {ValueOutcome(ArrV(t.val.elems))}
    ELSE {ThrowOutcome, PromiseOutcome} \cup {ValueOutcome(v) : v \in ValuesOf(t.prov, id)}

Outcomes(s, c, id) ==
    IF c.json = "object" /\ (~IsDirect(c.db) \/ c.db \in {"MySql", "Mongo"})
    THEN LET t == Target(IF IsDirect(c.db) THEN [s EXCEPT ![c.tenant] = FreshCache] ELSE s, c)
         IN  IF t.found THEN MethodOutcomes(t, id) ELSE {NoOutcome}
    ELSE {NoOutcome}

Handled(r, t, pend) ==
    [socket |-> r.socket, writes |-> r.writes, threw |-> r.threw,
     invoked |-> t.found, target |-> t, pend |-> pend]

\* The handler without its try blocks: JSON.parse, or the property chain, outside
\* any try.  The properties below must tell these from the handler.
ParseFailedUncaught(s) == Handled(Thrown(s, <<>>), NoTarget, FALSE)
LookupFailedUncaught(s, t) == Handled(Thrown(s, <<>>), t, FALSE)

\* catch (err) { sendError(socket, err); return; } around JSON.parse
ParseFailed(s) == Handled(sendError(s, SyntaxMsg), NoTarget, FALSE)

\* catch (err) { sendError(socket, err); return; } around the property chain:
\* reading a property of undefined, or calling what is no function
LookupFailed(s, t) == Handled(sendError(s, TypeMsg), t, FALSE)

\* the Mongo branch: ...[method](...params).then(resolved.bind(this)) in a try
MongoBranch(s, c, o) ==
    LET t == Target(s, c)
    IN  IF ~t.found THEN LookupFailed(s, t)
        ELSE IF o.mode = "throw" THEN Handled(sendError(s, ProviderMsg), t, FALSE)
        ELSE IF o.mode = "promise" THEN Handled(Done(s, <<>>), t, TRUE)
        ELSE Handled(sendError(s, TypeMsg), t, FALSE)   \* no .then on what was returned

\* the other branch: a promise gets resolved attached, anything else is
\* passed to resolved at once, all in a try
OtherBranch(s, c, o) ==
    LET t == Target(s, c)
        r == resolved(s, c.db, c.tenant, o.val)
    IN  IF ~t.found THEN LookupFailed(s, t)
        ELSE IF o.mode = "throw" THEN Handled(sendError(s, ProviderMsg), t, FALSE)
        ELSE IF o.mode = "promise" THEN Handled(Done(s, <<>>), t, TRUE)
        ELSE IF o.val.kind = "null" THEN Handled(sendError(s, TypeMsg), t, FALSE)  \* null.then
        ELSE IF r.threw THEN Handled(sendError(r.socket, TypeMsg), t, FALSE)
        ELSE Handled(r, t, FALSE)

\* socket.on('data', data => ...)
OnData(s, c, o) ==
    IF c.json = "invalid" THEN ParseFailed(s)
    ELSE IF c.json = "falsy" THEN Handled(sendError(s, SignatureMsg), NoTarget, FALSE)
    ELSE IF IsDirect(c.db) /\ c.db # "MySql" /\ c.db # "Mongo"
    THEN Handled(sendError(s, SignatureMsg), NoTarget, FALSE)
    ELSE LET s1 == IF IsDirect(c.db) THEN [s EXCEPT ![c.tenant] = FreshCache] ELSE s
         IN  IF c.db = "Mongo" THEN MongoBranch(s1, c, o) ELSE OtherBranch(s1, c, o)

(***************************************************************************)
(* The client (src/lib/client.js); its operations follow the server's.     *)
(***************************************************************************)
MaxCalls == 3    \* calls of MySql / Mongo / data / dataSet on the client

DrainMsg == "Waiting for 'drain' event."
SocketErrorMsg == "ECONNRESET"

\* a promise returned by _write
PendingPromise == [state |-> "pending", kind |-> "none", msg |-> "", for |-> 0]
\* fulfilled with JSON.parse of the message m
Fulfilled(m) == [state |-> "fulfilled", kind |-> m.kind, msg |-> m.msg, for |-> m.for]
Rejected(msg) == [state |-> "rejected", kind |-> "reason", msg |-> msg, for |-> 0]

\* an inbound message: the response to request `for`, a value or {error: msg}
Message(for, kind) ==
    [for |-> for, kind |-> kind, msg |-> IF kind = "error" THEN ProviderMsg ELSE ""]

\* the client after its constructor: a socket that is connecting, nothing sent
NewClient ==
    [hasSocket |-> TRUE,         \* this.socket exists (end deletes it)
     conn |-> "connecting",      \* the socket: connecting, open or ended
     dataL |-> <<>>,             \* the promises whose resolve listens once for 'data'
     errL |-> <<>>,              \* the promises whose reject listens once for 'error'
     prom |-> <<>>,              \* the promises _write has returned, by call
     sent |-> <<>>,              \* the requests written and not yet answered
     threw |-> FALSE,            \* the last operation raised an error to its caller
     op |-> "new"]

(***************************************************************************)
(* The connection as a state machine                                       *)
(***************************************************************************)
NoStep ==
    [op |-> "init", id |-> 0, chunk |-> NoFields("none"), invoked |-> FALSE,
     target |-> NoTarget, mode |-> "none", val |-> UndefinedV,
     wrote |-> 0, unhandled |-> FALSE]

Tagged(ws, id) == [i \in 1..Len(ws) |-> [req |-> id, body |-> ws[i]]]

(***************************************************************************)
(* The constructor's options and the idle timeout                          *)
(***************************************************************************)
DefaultTimeout == 10000

\* new ModelServer(options): no options, or options whose socketTimeout is a
\* number or something else
NoOptions == [given |-> FALSE, isNumber |-> FALSE, socketTimeout |-> 0]
NumberOption(n) == [given |-> TRUE, isNumber |-> TRUE, socketTimeout |-> n]
OtherOption == [given |-> TRUE, isNumber |-> FALSE, socketTimeout |-> 0]

\* The constructor with the default applied to every options object.
SocketTimeoutAlwaysDefault(options) == DefaultTimeout

\* options && typeof options.socketTimeout === 'number' ? it : 10000
SocketTimeout(options) ==
    IF options.given /\ options.isNumber THEN options.socketTimeout ELSE DefaultTimeout

\* socket.setTimeout(this.socketTimeout): 0 leaves the timer off
NewTimer(options) ==
    [options |-> options, timeout |-> SocketTimeout(options), destroyed |-> FALSE]

ServerInit(tenants) ==
    /\ socket = NewSocket
    /\ pending = {}
    /\ responses = <<>>
    /\ nreq = 0
    /\ open = TRUE
    /\ last = NoStep
    /\ tenantNames = tenants

\* a server made with {socketTimeout: 0}, and a new client
Init == ServerInit(PlainTenants) /\ timer = NewTimer(NumberOption(0)) /\ cl = NewClient

\* A chunk arrives and the 'data' handler runs to its end.  An exception
\* that leaves the handler is an uncaught exception: the process ends.
Data(c, o) ==
    LET id == nreq + 1
        h == OnData(socket, c, o)
    IN  /\ open
        /\ ~timer.destroyed
        /\ nreq < MaxReq
        /\ socket' = h.socket
        /\ responses' = responses \o Tagged(h.writes, id)
        /\ pending' = IF h.pend
                      THEN pending \cup {[id |-> id, chunk |-> c, prov |-> h.target.prov]}
                      ELSE pending
        /\ nreq' = id
        /\ open' = ~h.threw
        /\ last' = [op |-> "data", id |-> id, chunk |-> c, invoked |-> h.invoked,
                    target |-> h.target, mode |-> o.mode, val |-> o.val,
                    wrote |-> Len(h.writes), unhandled |-> h.threw]
        /\ UNCHANGED <<tenantNames, timer, cl>>

\* A pending promise is fulfilled with v: resolved runs as its continuation.
\* An exception in it rejects the promise .then returned, which nothing
\* handles; depending on the runtime the process goes on or ends.  Nothing
\* tells resolved that the socket was destroyed: it runs all the same, and
\* what it writes reaches nobody (the write fails, and depending on the
\* runtime the failure is an 'error' event nothing listens to).
Fulfil(p, v, ends) ==
    LET r == resolved(socket, p.chunk.db, p.chunk.tenant, v)
    IN  /\ open
        /\ p \in pending
        /\ ends => (r.threw \/ (timer.destroyed /\ Len(r.writes) > 0))
        /\ socket' = r.socket
        /\ responses' = IF timer.destroyed THEN responses
                        ELSE responses \o Tagged(r.writes, p.id)
        /\ pending' = pending \ {p}
        /\ open' = ~ends
        /\ last' = [op |-> "fulfil", id |-> p.id, chunk |-> p.chunk, invoked |-> TRUE,
                    target |-> NoTarget, mode |-> "fulfil", val |-> v,
                    wrote |-> Len(r.writes), unhandled |-> r.threw]
        /\ UNCHANGED <<nreq, tenantNames, timer, cl>>

\* A pending promise is rejected: .then(resolved) gave it no rejection
\* handler, so the rejection is unhandled.
Reject(p, ends) ==
    /\ open
    /\ p \in pending
    /\ pending' = pending \ {p}
    /\ open' = ~ends
    /\ last' = [op |-> "reject", id |-> p.id, chunk |-> p.chunk, invoked |-> TRUE,
                target |-> NoTarget, mode |-> "reject", val |-> UndefinedV,
                wrote |-> 0, unhandled |-> TRUE]
    /\ UNCHANGED <<socket, responses, nreq, tenantNames, timer, cl>>

\* the chunks that can still arrive
Inbound == IF open /\ ~timer.destroyed /\ nreq < MaxReq THEN Chunks(tenantNames) ELSE {}

Next ==
    \/ \E c \in Inbound : \E o \in Outcomes(socket, c, nreq + 1) : Data(c, o)
    \/ \E p \in pending : \E v \in ValuesOf(p.prov, p.id) : \E ends \in BOOLEAN : Fulfil(p, v, ends)
    \/ \E p \in pending : \E ends \in BOOLEAN : Reject(p, ends)

Spec == Init /\ [][Next]_vars

(***************************************************************************)
(* The client as a state machine.  The server is seen from the client as   *)
(* what answers the requests written on the socket, one message each, in   *)
(* the order in which they were written.                                   *)
(***************************************************************************)
serverVars == <<socket, pending, responses, nreq, open, last, tenantNames, timer>>

\* listener(arg) for every listener registered with once: each is removed
\* and called; resolve and reject settle a promise only if it is pending
Settle(prom, listeners, to) ==
    [i \in 1..Len(prom) |->
        IF prom[i].state = "pending" /\ \E k \in 1..Len(listeners) : listeners[k] = i
        THEN to ELSE prom[i]]

\* _write(mergeOptions({db: ...}, options)), called by MySql, Mongo, data and
\* dataSet.  stringifyFails: JSON.stringify threw in mergeOptions, so data is
\* an Error.  backpressure: socket.write returned false.
Write(stringifyFails, backpressure) ==
    LET id == Len(cl.prom) + 1
    IN  /\ Len(cl.prom) < MaxCalls
        /\ cl' =
            IF stringifyFails
            THEN [cl EXCEPT !.prom = Append(@, Rejected("stringify")),
                            !.threw = FALSE, !.op = "write"]
            ELSE IF ~cl.hasSocket
            THEN [cl EXCEPT !.prom = Append(@, Rejected(TypeMsg)),   \* this.socket is undefined
                            !.threw = FALSE, !.op = "write"]
            ELSE [cl EXCEPT !.errL = Append(@, id),
                            !.dataL = Append(@, id),
                            !.sent = IF cl.conn = "ended" THEN @ ELSE Append(@, id),
                            !.prom = Append(@, IF backpressure THEN Rejected(DrainMsg)
                                               ELSE PendingPromise),
                            !.threw = FALSE, !.op = "write"]
        /\ UNCHANGED serverVars

\* The response to the oldest unanswered request arrives: the socket emits
\* 'data', and .then(data => JSON.parse(data)) fulfils with the parsed message.
Deliver(kind) ==
    /\ cl.sent # <<>>
    /\ cl' = [cl EXCEPT !.prom = Settle(@, cl.dataL, Fulfilled(Message(Head(cl.sent), kind))),
                        !.dataL = <<>>,
                        !.sent = Tail(@),
                        !.threw = FALSE, !.op = "deliver"]
    /\ UNCHANGED serverVars

\* The socket emits 'error' and is closed.
SocketError ==
    /\ cl.conn # "ended"
    /\ cl' = [cl EXCEPT !.prom = Settle(@, cl.errL, Rejected(SocketErrorMsg)),
                        !.errL = <<>>,
                        !.conn = "ended",
                        !.sent = <<>>,
                        !.threw = (cl.errL = <<>>),   \* 'error' without a listener is thrown
                        !.op = "error"]
    /\ UNCHANGED serverVars

\* connect(options): this.socket.connect(options)
Connect ==
    /\ cl' = IF cl.hasSocket
             THEN [cl EXCEPT !.conn = "connecting", !.threw = FALSE, !.op = "connect"]
             ELSE [cl EXCEPT !.threw = TRUE, !.op = "connect"]
    /\ UNCHANGED serverVars

\* end(): this.socket.end(); delete this.socket
End ==
    /\ cl' = IF cl.hasSocket
             THEN [cl EXCEPT !.conn = "ended", !.hasSocket = FALSE,
                             !.threw = FALSE, !.op = "end"]
             ELSE [cl EXCEPT !.threw = TRUE, !.op = "end"]
    /\ UNCHANGED serverVars

ClientNext ==
    \/ \E stringifyFails, backpressure \in BOOLEAN : Write(stringifyFails, backpressure)
    \/ \E kind \in {"value", "error"} : Deliver(kind)
    \/ SocketError
    \/ Connect
    \/ End

ClientSpec == Init /\ [][ClientNext]_vars

(***************************************************************************)
(* A server made with any options, whose idle timer may fire               *)
(***************************************************************************)
Options == {NoOptions, OtherOption, NumberOption(0), NumberOption(1)}

\* The socket stayed idle for timer.timeout (> 0) milliseconds and emits
\* 'timeout', whose listener is () => socket.destroy().  What the handler
\* started before is not cancelled.
Timeout ==
    /\ open
    /\ ~timer.destroyed
    /\ timer.timeout # 0
    /\ timer' = [timer EXCEPT !.destroyed = TRUE]
    /\ last' = [NoStep EXCEPT !.op = "timeout"]
    /\ UNCHANGED <<socket, pending, responses, nreq, open, tenantNames, cl>>

TimeoutInit ==
    /\ ServerInit({"t1"})
    /\ \E options \in Options : timer = NewTimer(options)
    /\ cl = NewClient

TimeoutNext == Next \/ Timeout

TimeoutSpec == TimeoutInit /\ [][TimeoutNext]_vars

(***************************************************************************)
(* A connection whose requests may name a tenant after a socket member     *)
(***************************************************************************)
ClashInit ==
    /\ ServerInit({"t1", "MySql", "write"})
    /\ timer = NewTimer(NumberOption(0))
    /\ cl = NewClient

ClashSpec == ClashInit /\ [][Next]_vars

(***************************************************************************)
(* A client used sequentially: a request is made once every earlier        *)
(* promise has settled                                                     *)
(***************************************************************************)
AllSettled == \A i \in 1..Len(cl.prom) : cl.prom[i].state # "pending"

SequentialNext ==
    \/ \E stringifyFails, backpressure \in BOOLEAN :
            AllSettled /\ Write(stringifyFails, backpressure)
    \/ \E kind \in {"value", "error"} : Deliver(kind)
    \/ SocketError
    \/ Connect
    \/ End

SequentialSpec == Init /\ [][SequentialNext]_vars

(***************************************************************************)
(* Vocabulary of the properties                                            *)
(***************************************************************************)
PendingIds == {p.id : p \in pending}
ResponsesTo(id) == {i \in 1..Len(responses) : responses[i].req = id}
LastResponse == responses[Len(responses)]
\* the step just taken wrote exactly one body, b
Answered(b) ==
    /\ last.wrote = 1
    /\ Len(responses) > 0
    /\ LastResponse = [req |-> last.id, body |-> b]
\* the step from the unprimed to the primed state wrote exactly one body, b
Answers(b) == responses' = Append(responses, [req |-> last'.id, body |-> b])
\* the step is the 'data' handler receiving a chunk
Receives == nreq' = nreq + 1
JsonNull(v) == IF v.kind = "undefined" THEN NullV ELSE v
\* what the socket caches: per property name, the entries of data and dataSets
\* (none where there is no cache)
Entries(s) == [p \in PropNames |-> <<s[p].data, s[p].dataSets>>]

\* C1: every chunk the handler has received has exactly one response, unless
\* its promise is still pending, and then it has none yet.
C1_ExactlyOneResponse ==
    \A id \in 1..nreq :
        Cardinality(ResponsesTo(id)) = IF id \in PendingIds THEN 0 ELSE 1

\* C2: when the promise of a request is rejected, an error response with the
\* failure's message is written for that request and the connection stays open.
C2_RejectionAnswered ==
    last.op = "reject" => open /\ Answered(ErrorBody(ProviderMsg))

\* C3: a request that lacks tenant, model or method, or whose db is none of
\* the four, is answered "Signature does not match.", invokes nothing and
\* leaves the socket's cache state as it was.
InvalidShape(c) ==
    /\ c.json = "object"
    /\ \/ c.tenant = undefined
       \/ c.model = undefinedName
       \/ c.method = undefined
       \/ c.db \notin {"MySql", "Mongo", "data", "dataSets"}

C3_InvalidShapeRejected ==
    [][(Receives /\ InvalidShape(last'.chunk))
        => /\ Answers(ErrorBody(SignatureMsg))
           /\ ~last'.invoked
           /\ Entries(socket') = Entries(socket)]_vars

\* C4 as stated: a chunk that is no JSON, or a falsy JSON value, is answered
\* "Signature does not match.", invokes nothing and leaves the connection open.
C4_MalformedAnsweredSignature ==
    (last.op = "data" /\ last.chunk.json \in {"invalid", "falsy"})
        => (Answered(ErrorBody(SignatureMsg)) /\ ~last.invoked /\ open)

\* C4 amended: a chunk that is no JSON is answered with the parser's message,
\* a falsy JSON value with "Signature does not match."; either way exactly one
\* error response is written, nothing is invoked, and the connection, its
\* cache and its pending requests are as they were before the chunk.
C4_MalformedAnswered ==
    [][(Receives /\ last'.chunk.json \in {"invalid", "falsy"})
        => /\ Answers(ErrorBody(IF last'.chunk.json = "invalid"
                                THEN SyntaxMsg ELSE SignatureMsg))
           /\ ~last'.invoked
           /\ open'
           /\ socket' = socket
           /\ pending' = pending]_vars

\* a malformed chunk was answered and the next request on the connection
\* got a record back
C4_Witness ==
    /\ Len(responses) = 2
    /\ responses[1] = [req |-> 1, body |-> ErrorBody(SyntaxMsg)]
    /\ responses[2].req = 2
    /\ responses[2].body.kind = "value"
    /\ responses[2].body.val.kind = "obj"
    /\ open

\* the step just taken completed a direct-provider request with a value
\* response: its result has been stored in its tenant's cache
StoredResult ==
    /\ last.op \in {"data", "fulfil"}
    /\ last.chunk.db \in {"MySql", "Mongo"}
    /\ last.wrote = 1
    /\ Len(responses) > 0
    /\ LastResponse.req = last.id
    /\ LastResponse.body.kind = "value"

\* C5: right after a direct-provider request for tenant t was answered with a
\* single record, a 'data' request for t, the record's derived model name and
\* an instance method of the record invokes the method on that record and,
\* when the method returns a value, answers with that value and no error.
C5_CachedRecordCall ==
    [][(/\ StoredResult
        /\ last.val.kind = "obj"
        /\ last.val.obj.prov \in {"MySql", "Mongo"}
        /\ Receives
        /\ last'.chunk.json = "object"
        /\ last'.chunk.db = "data"
        /\ last'.chunk.tenant = last.chunk.tenant
        /\ last'.chunk.model = GetModelName(last.val)
        /\ last'.chunk.method \in InstanceMethods)
        => /\ last'.invoked
           /\ last'.target.val = last.val
           /\ last'.mode = "value" => Answers(ValueBody(Stringify(JsonNull(last'.val))))]_vars

\* C6: a 'data' or 'dataSets' request for a (tenant, model) without a stored
\* entry is answered with exactly one error response; nothing is invoked, no
\* exception leaves the handler and the connection stays open.
HasEntry(s, c) ==
    /\ s[c.tenant].kind = "cache"
    /\ c.model \in DOMAIN (IF c.db = "data" THEN s[c.tenant].data ELSE s[c.tenant].dataSets)

SourcesIn(s, t) ==
    {s[t].data[k].obj.src : k \in DOMAIN s[t].data}
        \cup UNION {{s[t].dataSets[k].elems[i].src : i \in 1..Len(s[t].dataSets[k].elems)}
                        : k \in DOMAIN s[t].dataSets}

\* C7: once a direct-provider call for tenant t has stored its result, t's
\* cache holds that result's entry and no entry of an earlier call.
C7_OnlyNewestResult ==
    StoredResult =>
        /\ last.id \in SourcesIn(socket, last.chunk.tenant)
        /\ \A src \in SourcesIn(socket, last.chunk.tenant) : src >= last.id

\* C8: a request that fails (its target cannot be resolved, its method throws
\* or its promise is rejected) is answered {error: message} and leaves the
\* socket's cache as it was before the request.
C8_FailureLeavesCache ==
    [][/\ (/\ Receives
           /\ last'.chunk.json = "object"
           /\ last'.chunk.db \in {"MySql", "Mongo", "data", "dataSets"}
           /\ (~last'.invoked \/ last'.mode = "throw"))
            => /\ Answers(ErrorBody(IF last'.invoked THEN ProviderMsg ELSE TypeMsg))
               /\ Entries(socket') = Entries(socket)
       /\ (last'.op = "reject" /\ pending' # pending)
            => /\ Answers(ErrorBody(ProviderMsg))
               /\ Entries(socket') = Entries(socket)]_vars

\* C8, the part about the cache alone: a request that fails in the handler
\* leaves the cached entries as they were.
C8_SyncFailureLeavesCache ==
    [][(/\ Receives
        /\ last'.chunk.json = "object"
        /\ (~last'.invoked \/ last'.mode = "throw"))
        => Entries(socket') = Entries(socket)]_vars

\* C9: responses are written in the order in which their requests arrived.
C9_ResponsesInOrder ==
    \A i, j \in 1..Len(responses) : i < j => responses[i].req < responses[j].req

\* C10: a promise of the client whose request was answered with an error
\* message is rejected; none is fulfilled with the error object.
C10_ErrorMessageRejects ==
    \A i \in 1..Len(cl.prom) : cl.prom[i].state = "fulfilled" => cl.prom[i].kind # "error"

\* C11: an inbound message settles one pending request and no more: no two
\* promises of the client are fulfilled with the same message.
C11_OneMessageOneRequest ==
    \A i, j \in 1..Len(cl.prom) :
        (i # j /\ cl.prom[i].state = "fulfilled" /\ cl.prom[j].state = "fulfilled")
            => cl.prom[i].for # cl.prom[j].for

\* C12: connect() and end() never fail, in whatever order and however often
\* they are called, and an end() after an end() changes nothing.
C12_ConnectEndIdempotent ==
    [][cl'.op \in {"connect", "end"}
        => /\ ~cl'.threw
           /\ (cl.op = "end" /\ cl'.op = "end") => cl' = cl]_vars

\* C13: the idle timeout is options.socketTimeout when that is a number and
\* 10000 otherwise; with a timeout other than 0 a connection that stays
\* silent can be destroyed by it, whatever the handler has started, and with
\* the timeout 0 the connection is never destroyed.
C13_IdleTimeout ==
    /\ timer.timeout = IF timer.options.given /\ timer.options.isNumber
                       THEN timer.options.socketTimeout ELSE DefaultTimeout
    /\ timer.options = NumberOption(0) => ~timer.destroyed
    /\ timer.destroyed => timer.timeout # 0
    /\ (open /\ ~timer.destroyed /\ timer.timeout # 0) => ENABLED Timeout

\* the default timeout has destroyed a connection with a dispatch in flight
C13_Witness ==
    /\ last.op = "timeout"
    /\ timer.destroyed
    /\ timer.options = NoOptions
    /\ timer.timeout = DefaultTimeout
    /\ pending # {}

\* C14: no exception leaves the 'data' handler or the continuation of a
\* promise it started, and the process stays up.
C14_NothingEscapes == ~last.unhandled /\ open

\* C15: when an invoked method returns or resolves to a value, the response
\* is that value normalized, with null for undefined: null for null and
\* undefined, [] for an empty array, and never an error response.
C15_ResolvedValueIsPayload ==
    (/\ last.invoked
     /\ \/ last.op = "fulfil"
        \/ last.op = "data" /\ last.mode = "value")
    => Answered(ValueBody(Stringify(Normalize(JsonNull(last.val), last.chunk.db))))

\* C16: when the promise of the request dispatched last is fulfilled with v,
\* the response and the cache are what the handler makes of a method that
\* returns v at once.
C16_SyncAsyncUniform ==
    [][(last.op = "data" /\ last'.op = "fulfil" /\ last'.id = last.id)
        => LET h == OnData(socket, last.chunk, ValueOutcome(last'.val))
           IN  /\ socket' = h.socket
               /\ responses' = responses \o Tagged(h.writes, last.id)]_vars

\* C17: once the idle timeout has destroyed the connection, no step writes on
\* it or changes its cache.
C17_NothingAfterDestroy ==
    [][timer.destroyed
        => /\ last'.wrote = 0
           /\ responses' = responses
           /\ socket' = socket]_vars

\* C18: right after a direct-provider request was answered with a record or
\* an array of records, the tenant's cache holds under the derived name
\* exactly what the provider returned.
C18_CachedEntryIsResult ==
    (StoredResult /\ last.val.kind \in {"obj", "array"})
    => LET c == socket[last.chunk.tenant]
           name == GetModelName(NameArg(last.val))
           kept == IF last.val.kind = "array" THEN c.dataSets ELSE c.data
       IN  /\ c.kind = "cache"
           /\ name \in DOMAIN kept
           /\ kept[name] = last.val

\* C19: the connection keeps its two provider references and its write
\* operation, whatever tenants the requests name.
C19_MembersKept ==
    /\ socket["MySql"] = ProviderProp("MySql")
    /\ socket["Mongo"] = ProviderProp("Mongo")
    /\ socket["write"] = FunctionProp

\* C20: under sequential use a fulfilled promise carries the response to its
\* own request, and a settled promise has no listener left on the socket.
C20_OwnResponseNoListener ==
    \A i \in 1..Len(cl.prom) :
        /\ cl.prom[i].state = "fulfilled" => cl.prom[i].for = i
        /\ cl.prom[i].state # "pending"
            => /\ \A k \in 1..Len(cl.dataL) : cl.dataL[k] # i
               /\ \A k \in 1..Len(cl.errL) : cl.errL[k] # i

====
